---- MODULE Spec2Model ----
(***************************************************************************)
(* Model of the multi-stream synchronizer: the per-key Buffer              *)
(* (src/src/buffer.rs, src/src/state.rs), the aggregate State              *)
(* (src/src/state.rs) and the driver loop poll (src/src/sync.rs).          *)
(*                                                                         *)
(* A message is represented by its timestamp (the payload is opaque to the *)
(* synchronizer).  Option<Duration> is a sequence of length 0 (None) or 1  *)
(* (Some(t)).  An IndexMap is a sequence of [key, ts] records in           *)
(* iteration order.                                                        *)
(***************************************************************************)
EXTENDS Integers, Sequences, FiniteSets, TLC

\* ------------------------------------------------------------------ bounds
\* greatest timestamp the free input stream produces
MaxTs == 4
\* greatest window_size a session of the free specification is built with
MaxWindow == 1
\* greatest buf_size a session of the free specification is built with
MaxBufSize == 3
\* greatest number of end-of-output items the consumer pulls
MaxEnds == 2
\* greatest timestamp pushed to the stand-alone Buffer
MaxBufTs == 3

\* ------------------------------------------------------------ configuration
\* the keys handed to sync(), in construction order
KeyOrder == <<"X", "Y">>

Keys == {KeyOrder[i] : i \in 1..Len(KeyOrder)}

\* a key that is not configured
UnknownKey == "Z"

None == <<>>

Some(t) == <<t>>

IsSome(o) == Len(o) = 1

Unwrap(o) == o[1]

VARIABLES
    buffers,       \* State.buffers[k].buffer : front-to-back timestamps
    last_ts,       \* State.buffers[k].last_ts : Option
    commit_ts,     \* State.commit_ts : Option
    buf_size,      \* State.buf_size
    window_size,   \* State.window_size
    feedback_tx,   \* State.feedback_tx is Some
    watch,         \* the value held by the feedback watch channel
    rx_alive,      \* the feedback receiver has not been dropped
    input,         \* the input stream S
    input_stream,  \* the Option<S> of poll: TRUE while it is Some
    pc,            \* position of the driver: inside the loop of poll, or what poll returned
    out,           \* the items the output stream has yielded, oldest first
    admitted,      \* history: per key, the greatest timestamp a push admitted
    buf,           \* a stand-alone Buffer of src/src/buffer.rs: [buffer, last_ts]
    buf_ret,       \* the last operation on buf, its argument and what it returned
    buf_admitted,  \* history: the greatest timestamp try_push admitted to buf
    config         \* the keys and the Config handed to sync()

vars == <<buffers, last_ts, commit_ts, buf_size, window_size, feedback_tx,
          watch, rx_alive, input, input_stream, pc, out, admitted,
          buf, buf_ret, buf_admitted, config>>

\* the session of sync(): the State and the driver
sessionVars == <<buffers, last_ts, commit_ts, buf_size, window_size, feedback_tx,
                 watch, rx_alive, input, input_stream, pc, out, admitted>>

\* the stand-alone Buffer
bufferVars == <<buf, buf_ret, buf_admitted>>

\* --------------------------------------------------------------- sequences
Front(q) == q[1]

Back(q) == q[Len(q)]

PopFront(q) == SubSeq(q, 2, Len(q))

SetMin(S) == CHOOSE x \in S : \A y \in S : x <= y

SetMax(S) == CHOOSE x \in S : \A y \in S : x >= y

StrictlyIncreasing(q) == \A i \in 1..(Len(q) - 1) : q[i] < q[i + 1]

\* ------------------------------------------------------- Buffer (state.rs)
\* mutant: the timestamp is compared with the front of the queue
BufferTryPush_ComparesFront(b, t) ==
    IF b.buffer # <<>> /\ Front(b.buffer) >= t
    THEN [ok |-> FALSE, buffer |-> b.buffer, last_ts |-> b.last_ts]
    ELSE [ok |-> TRUE, buffer |-> Append(b.buffer, t), last_ts |-> Some(t)]

\* Buffer::try_push on a buffer b = [buffer, last_ts]; ok is the return value
BufferTryPush(b, t) ==
    IF IsSome(b.last_ts) /\ Unwrap(b.last_ts) >= t
    THEN [ok |-> FALSE, buffer |-> b.buffer, last_ts |-> b.last_ts]
    ELSE [ok |-> TRUE, buffer |-> Append(b.buffer, t), last_ts |-> Some(t)]

\* ------------------------------------------------------ Buffer (buffer.rs)
\* mutant: a message whose timestamp equals last_ts is admitted
try_push_AdmitsEqual(b, t) ==
    IF IsSome(b.last_ts) /\ Unwrap(b.last_ts) > t
    THEN [ok |-> FALSE, err |-> Some(t), buffer |-> b.buffer, last_ts |-> b.last_ts]
    ELSE [ok |-> TRUE, err |-> None, buffer |-> Append(b.buffer, t), last_ts |-> Some(t)]

\* mutant: the timestamp is compared with the back of the queue, not with last_ts
try_push_ComparesBack(b, t) ==
    IF b.buffer # <<>> /\ Back(b.buffer) >= t
    THEN [ok |-> FALSE, err |-> Some(t), buffer |-> b.buffer, last_ts |-> b.last_ts]
    ELSE [ok |-> TRUE, err |-> None, buffer |-> Append(b.buffer, t), last_ts |-> Some(t)]

\* mutant: a rejected message still moves last_ts to its timestamp
try_push_RejectSetsLastTs(b, t) ==
    IF IsSome(b.last_ts) /\ Unwrap(b.last_ts) >= t
    THEN [ok |-> FALSE, err |-> Some(t), buffer |-> b.buffer, last_ts |-> Some(t)]
    ELSE [ok |-> TRUE, err |-> None, buffer |-> Append(b.buffer, t), last_ts |-> Some(t)]

\* Buffer::try_push: Ok(()) or Err(item), and the buffer after the call
try_push(b, t) ==
    IF IsSome(b.last_ts) /\ Unwrap(b.last_ts) >= t
    THEN [ok |-> FALSE, err |-> Some(t), buffer |-> b.buffer, last_ts |-> b.last_ts]
    ELSE [ok |-> TRUE, err |-> None, buffer |-> Append(b.buffer, t), last_ts |-> Some(t)]

\* Buffer::pop_front: the popped item (an Option) and the buffer after the call
pop_front(b) ==
    IF b.buffer = <<>>
    THEN [item |-> None, buffer |-> b.buffer, last_ts |-> b.last_ts]
    ELSE [item |-> Some(Front(b.buffer)), buffer |-> PopFront(b.buffer), last_ts |-> b.last_ts]

\* Buffer::front_entry: the entry holds the popped front, the buffer the rest
front_entry(q) ==
    IF q = <<>>
    THEN [some |-> FALSE, item |-> None, buffer |-> q]
    ELSE [some |-> TRUE, item |-> Some(Front(q)), buffer |-> PopFront(q)]

\* FrontEntry::drop: an item that was not taken goes back to the front
FrontEntryDrop(item, q) == IF IsSome(item) THEN <<Unwrap(item)>> \o q ELSE q

\* mutant: a message whose timestamp equals ts is dropped too
RECURSIVE DropBeforeLoop_DropsEqual(_, _, _)
DropBeforeLoop_DropsEqual(q, ts, count) ==
    LET entry == front_entry(q)
    IN  IF ~entry.some
        THEN [count |-> count, buffer |-> q]
        ELSE IF Unwrap(entry.item) > ts
             THEN [count |-> count, buffer |-> FrontEntryDrop(entry.item, entry.buffer)]
             ELSE DropBeforeLoop_DropsEqual(FrontEntryDrop(None, entry.buffer), ts, count + 1)

\* the loop of Buffer::drop_before
RECURSIVE DropBeforeLoop(_, _, _)
DropBeforeLoop(q, ts, count) ==
    LET entry == front_entry(q)
    IN  IF ~entry.some
        THEN [count |-> count, buffer |-> q]
        ELSE IF Unwrap(entry.item) >= ts
             THEN [count |-> count, buffer |-> FrontEntryDrop(entry.item, entry.buffer)]
             ELSE DropBeforeLoop(FrontEntryDrop(None, entry.buffer), ts, count + 1)

\* Buffer::drop_before: the number of dropped messages and the buffer after the call
drop_before(b, ts) ==
    LET r == DropBeforeLoop(b.buffer, ts, 0)
    IN  [count |-> r.count, buffer |-> r.buffer, last_ts |-> b.last_ts]

\* ---------------------------------------------------- State: reductions
\* buffer.front().map(timestamp), buffer.back().map(timestamp)
FrontOpt(q) == IF q = <<>> THEN None ELSE Some(Front(q))

BackOpt(q) == IF q = <<>> THEN None ELSE Some(Back(q))

\* mutant: None is Greater than every Some, so empty buffers are passed over
OptionCmp_NoneGreatest(reverse, lhs, rhs) ==
    IF IsSome(lhs) /\ IsSome(rhs)
    THEN IF Unwrap(lhs) = Unwrap(rhs) THEN "Equal"
         ELSE IF (Unwrap(lhs) < Unwrap(rhs)) # reverse THEN "Less" ELSE "Greater"
    ELSE IF IsSome(lhs) THEN "Less"
         ELSE IF IsSome(rhs) THEN "Greater" ELSE "Equal"

\* the comparator closures given to min_by: "Less", "Equal" or "Greater";
\* reverse is TRUE for the closure of inf_timestamp, which reverses the
\* order of two Some values; None is Less than every Some in all of them
OptionCmp(reverse, lhs, rhs) ==
    IF IsSome(lhs) /\ IsSome(rhs)
    THEN IF Unwrap(lhs) = Unwrap(rhs) THEN "Equal"
         ELSE IF (Unwrap(lhs) < Unwrap(rhs)) # reverse THEN "Less" ELSE "Greater"
    ELSE IF IsSome(lhs) THEN "Greater"
         ELSE IF IsSome(rhs) THEN "Less" ELSE "Equal"

\* Iterator::min_by: the first of the least elements, None for no element
RECURSIVE MinByFold(_, _, _)
MinByFold(reverse, acc, opts) ==
    IF opts = <<>>
    THEN acc
    ELSE MinByFold(reverse,
                   IF OptionCmp(reverse, acc, Head(opts)) = "Greater" THEN Head(opts) ELSE acc,
                   Tail(opts))

\* min_by(..).flatten() over the buffers in iteration order
MinBy(reverse, opts) ==
    IF opts = <<>> THEN None ELSE MinByFold(reverse, Head(opts), Tail(opts))

sup_timestamp(bufs) ==
    MinBy(FALSE, [i \in 1..Len(KeyOrder) |-> BackOpt(bufs[KeyOrder[i]])])

inf_timestamp(bufs) ==
    MinBy(TRUE, [i \in 1..Len(KeyOrder) |-> FrontOpt(bufs[KeyOrder[i]])])

min_timestamp(bufs) ==
    MinBy(FALSE, [i \in 1..Len(KeyOrder) |-> FrontOpt(bufs[KeyOrder[i]])])

is_full(bufs, size) == \A k \in Keys : Len(bufs[k]) >= size

is_ready(bufs) == \A k \in Keys : Len(bufs[k]) >= 2

is_empty(bufs) == \A k \in Keys : bufs[k] = <<>>

\* ------------------------------------------------------- State: try_match
saturating_sub(a, b) == IF a >= b THEN a - b ELSE 0

\* Duration::MAX is far above every timestamp of the model
saturating_add(a, b) == a + b

duration_diff(lhs, rhs) == IF lhs >= rhs THEN lhs - rhs ELSE rhs - lhs

\* mutant: the drop range is bounded by commit_ts alone, window_start is forgotten
DropRangeContains_NoWindowStart(commit, window_start, ts) ==
    IsSome(commit) /\ ts <= Unwrap(commit)

\* drop_range.contains(ts): (Unbounded, Included(commit_ts)) when
\* commit_ts > window_start, (Unbounded, Excluded(window_start)) otherwise
DropRangeContains(commit, window_start, ts) ==
    IF IsSome(commit) /\ Unwrap(commit) > window_start
    THEN ts <= Unwrap(commit)
    ELSE ts < window_start

\* untouched_range.contains(ts): (Excluded(window_end), Unbounded)
UntouchedRangeContains(window_end, ts) == ts > window_end

\* mutant: the candidate is read with front() and stays in the buffer
RECURSIVE FirstCandidate_PeeksCandidate(_, _, _, _)
FirstCandidate_PeeksCandidate(q, commit, window_start, window_end) ==
    IF q = <<>>
    THEN [cand |-> None, rest |-> <<>>]
    ELSE IF DropRangeContains(commit, window_start, Front(q))
         THEN FirstCandidate_PeeksCandidate(PopFront(q), commit, window_start, window_end)
         ELSE IF UntouchedRangeContains(window_end, Front(q))
              THEN [cand |-> None, rest |-> PopFront(q)]
              ELSE [cand |-> Some(Front(q)), rest |-> q]

\* first loop of the closure: pop until a message outside the drop range;
\* a message above the window is popped too and ends the closure with None
RECURSIVE FirstCandidate(_, _, _, _)
FirstCandidate(q, commit, window_start, window_end) ==
    IF q = <<>>
    THEN [cand |-> None, rest |-> <<>>]
    ELSE IF DropRangeContains(commit, window_start, Front(q))
         THEN FirstCandidate(PopFront(q), commit, window_start, window_end)
         ELSE IF UntouchedRangeContains(window_end, Front(q))
              THEN [cand |-> None, rest |-> PopFront(q)]
              ELSE [cand |-> Some(Front(q)), rest |-> PopFront(q)]

\* mutant: a front as close to inf as the candidate replaces it
RECURSIVE BetterCandidate_TiesTakeLater(_, _, _, _)
BetterCandidate_TiesTakeLater(cand, q, inf, window_end) ==
    IF q = <<>>
    THEN [cand |-> None, rest |-> <<>>]
    ELSE IF UntouchedRangeContains(window_end, Front(q))
         THEN [cand |-> Some(cand), rest |-> q]
         ELSE IF duration_diff(inf, cand) >= duration_diff(inf, Front(q))
              THEN BetterCandidate_TiesTakeLater(Front(q), PopFront(q), inf, window_end)
              ELSE [cand |-> Some(cand), rest |-> q]

\* mutant: the first candidate is never replaced
BetterCandidate_KeepsFirst(cand, q, inf, window_end) ==
    IF q = <<>>
    THEN [cand |-> None, rest |-> <<>>]
    ELSE [cand |-> Some(cand), rest |-> q]

\* second loop of the closure: replace the candidate while the front is
\* inside the window and strictly closer to inf; front()? on an empty
\* buffer ends the closure with None
RECURSIVE BetterCandidate(_, _, _, _)
BetterCandidate(cand, q, inf, window_end) ==
    IF q = <<>>
    THEN [cand |-> None, rest |-> <<>>]
    ELSE IF UntouchedRangeContains(window_end, Front(q))
         THEN [cand |-> Some(cand), rest |-> q]
         ELSE IF duration_diff(inf, cand) > duration_diff(inf, Front(q))
              THEN BetterCandidate(Front(q), PopFront(q), inf, window_end)
              ELSE [cand |-> Some(cand), rest |-> q]

\* the closure given to flat_map, for one key
MatchKey(q, commit, inf, window_start, window_end) ==
    LET first == FirstCandidate(q, commit, window_start, window_end)
    IN  IF IsSome(first.cand)
        THEN BetterCandidate(Unwrap(first.cand), first.rest, inf, window_end)
        ELSE first

\* mutant: window_size is added on the side of sup
GatePasses_WindowOnSup(bufs, w) ==
    /\ IsSome(inf_timestamp(bufs))
    /\ IsSome(sup_timestamp(bufs))
    /\ Unwrap(inf_timestamp(bufs)) <= Unwrap(sup_timestamp(bufs)) + w

\* mutant: the gate only asks for inf <= sup
GatePasses_NoWindow(bufs, w) ==
    /\ IsSome(inf_timestamp(bufs))
    /\ IsSome(sup_timestamp(bufs))
    /\ Unwrap(inf_timestamp(bufs)) <= Unwrap(sup_timestamp(bufs))

\* the admission gate: inf and sup defined and inf + window_size <= sup
GatePasses(bufs, w) ==
    /\ IsSome(inf_timestamp(bufs))
    /\ IsSome(sup_timestamp(bufs))
    /\ Unwrap(inf_timestamp(bufs)) + w <= Unwrap(sup_timestamp(bufs))

\* mutant: the greatest timestamp of the group
NewCommitTs_TakesMax(items) == SetMax({items[i].ts : i \in 1..Len(items)})

\* items.values().map(timestamp).min()
NewCommitTs(items) == SetMin({items[i].ts : i \in 1..Len(items)})

\* mutant: the new commit_ts is the smallest distance to inf instead of the
\* smallest timestamp of the group
try_match_CommitIsDiff(bufs, commit, w) ==
    IF ~GatePasses(bufs, w)
    THEN [kind |-> "none", items |-> <<>>, buffers |-> bufs, commit_ts |-> commit,
          inf |-> inf_timestamp(bufs)]
    ELSE
        LET inf == Unwrap(inf_timestamp(bufs))
            window_start == saturating_sub(inf, w)
            window_end == saturating_add(inf, w)
            r == [k \in Keys |-> MatchKey(bufs[k], commit, inf, window_start, window_end)]
            contrib == SelectSeq(KeyOrder, LAMBDA k : IsSome(r[k].cand))
            items == [i \in 1..Len(contrib) |->
                        [key |-> contrib[i], ts |-> Unwrap(r[contrib[i]].cand)]]
            rest == [k \in Keys |-> r[k].rest]
        IN  IF items = <<>>
            THEN [kind |-> "panic", items |-> <<>>, buffers |-> rest, commit_ts |-> commit,
                  inf |-> Some(inf)]
            ELSE [kind |-> "group", items |-> items, buffers |-> rest,
                  commit_ts |-> Some(SetMin({duration_diff(inf, items[i].ts) :
                                                i \in 1..Len(items)})),
                  inf |-> Some(inf)]

\* State::try_match: kind is "none" (returns None), "group" (returns
\* Some(items)) or "panic" (unwrap of the minimum of an empty group);
\* buffers and commit_ts are the fields after the call, inf the inf_timestamp
\* the call computed
try_match(bufs, commit, w) ==
    IF ~GatePasses(bufs, w)
    THEN [kind |-> "none", items |-> <<>>, buffers |-> bufs, commit_ts |-> commit,
          inf |-> inf_timestamp(bufs)]
    ELSE
        LET inf == Unwrap(inf_timestamp(bufs))
            window_start == saturating_sub(inf, w)
            window_end == saturating_add(inf, w)
            r == [k \in Keys |-> MatchKey(bufs[k], commit, inf, window_start, window_end)]
            contrib == SelectSeq(KeyOrder, LAMBDA k : IsSome(r[k].cand))
            items == [i \in 1..Len(contrib) |->
                        [key |-> contrib[i], ts |-> Unwrap(r[contrib[i]].cand)]]
            rest == [k \in Keys |-> r[k].rest]
        IN  IF items = <<>>
            THEN [kind |-> "panic", items |-> <<>>, buffers |-> rest, commit_ts |-> commit,
                  inf |-> Some(inf)]
            ELSE [kind |-> "group", items |-> items, buffers |-> rest,
                  commit_ts |-> Some(NewCommitTs(items)), inf |-> Some(inf)]

\* ------------------------------------------------ State: drop_min, push
\* mutant: drop_min reports a drop without removing anything
drop_min_RemovesNothing(bufs) ==
    [dropped |-> IsSome(min_timestamp(bufs)), buffers |-> bufs]

\* State::drop_min: dropped is the return value
drop_min(bufs) ==
    LET m == min_timestamp(bufs)
    IN  IF ~IsSome(m)
        THEN [dropped |-> FALSE, buffers |-> bufs]
        ELSE [dropped |-> TRUE,
              buffers |-> [k \in Keys |->
                  IF bufs[k] # <<>> /\ Front(bufs[k]) = Unwrap(m)
                  THEN PopFront(bufs[k]) ELSE bufs[k]]]

\* mutant: a message whose timestamp equals commit_ts is admitted
push_AdmitsCommitTs(bufs, lasts, commit, key, t) ==
    IF IsSome(commit) /\ Unwrap(commit) > t
    THEN [ok |-> FALSE, buffers |-> bufs, last_ts |-> lasts]
    ELSE IF key \notin Keys
         THEN [ok |-> FALSE, buffers |-> bufs, last_ts |-> lasts]
         ELSE LET b == BufferTryPush([buffer |-> bufs[key], last_ts |-> lasts[key]], t)
              IN  [ok |-> b.ok,
                   buffers |-> [bufs EXCEPT ![key] = b.buffer],
                   last_ts |-> [lasts EXCEPT ![key] = b.last_ts]]

\* mutant: commit_ts is not consulted
push_IgnoresCommitTs(bufs, lasts, commit, key, t) ==
    IF key \notin Keys
    THEN [ok |-> FALSE, buffers |-> bufs, last_ts |-> lasts]
    ELSE LET b == BufferTryPush([buffer |-> bufs[key], last_ts |-> lasts[key]], t)
         IN  [ok |-> b.ok,
              buffers |-> [bufs EXCEPT ![key] = b.buffer],
              last_ts |-> [lasts EXCEPT ![key] = b.last_ts]]

\* mutant: the per-key last_ts is not consulted
push_IgnoresLastTs(bufs, lasts, commit, key, t) ==
    IF IsSome(commit) /\ Unwrap(commit) >= t
    THEN [ok |-> FALSE, buffers |-> bufs, last_ts |-> lasts]
    ELSE IF key \notin Keys
         THEN [ok |-> FALSE, buffers |-> bufs, last_ts |-> lasts]
         ELSE [ok |-> TRUE,
               buffers |-> [bufs EXCEPT ![key] = Append(bufs[key], t)],
               last_ts |-> [lasts EXCEPT ![key] = Some(t)]]

\* mutant: a message of an unknown key is stored under the first key
push_UnknownKeyToFirst(bufs, lasts, commit, key, t) ==
    IF IsSome(commit) /\ Unwrap(commit) >= t
    THEN [ok |-> FALSE, buffers |-> bufs, last_ts |-> lasts]
    ELSE LET key1 == IF key \in Keys THEN key ELSE KeyOrder[1]
             b == BufferTryPush([buffer |-> bufs[key1], last_ts |-> lasts[key1]], t)
         IN  [ok |-> b.ok,
              buffers |-> [bufs EXCEPT ![key1] = b.buffer],
              last_ts |-> [lasts EXCEPT ![key1] = b.last_ts]]

\* State::push: ok is the return value
push(bufs, lasts, commit, key, t) ==
    IF IsSome(commit) /\ Unwrap(commit) >= t
    THEN [ok |-> FALSE, buffers |-> bufs, last_ts |-> lasts]
    ELSE IF key \notin Keys
         THEN [ok |-> FALSE, buffers |-> bufs, last_ts |-> lasts]
         ELSE LET b == BufferTryPush([buffer |-> bufs[key], last_ts |-> lasts[key]], t)
              IN  [ok |-> b.ok,
                   buffers |-> [bufs EXCEPT ![key] = b.buffer],
                   last_ts |-> [lasts EXCEPT ![key] = b.last_ts]]

\* ------------------------------------------------- State: update_feedback
\* mutant: a key whose buffer holds exactly buf_size messages is still listed
Feedback_ListsFullKeys(bufs, commit, size) ==
    [accepted_keys |-> SelectSeq(KeyOrder, LAMBDA k : Len(bufs[k]) <= size),
     accepted_max_timestamp |-> None,
     commit_timestamp |-> commit]

\* mutant: the message never carries the commit timestamp
Feedback_NoCommit(bufs, commit, size) ==
    [accepted_keys |-> SelectSeq(KeyOrder, LAMBDA k : Len(bufs[k]) < size),
     accepted_max_timestamp |-> None,
     commit_timestamp |-> None]

\* the Feedback message built from the state
Feedback(bufs, commit, size) ==
    [accepted_keys |-> SelectSeq(KeyOrder, LAMBDA k : Len(bufs[k]) < size),
     accepted_max_timestamp |-> None,
     commit_timestamp |-> commit]

\* mutant: the sender is kept after a failed send
UpdateFeedback_KeepsSender(bufs, commit) ==
    IF ~feedback_tx
    THEN UNCHANGED <<feedback_tx, watch>>
    ELSE IF rx_alive
         THEN /\ watch' = Feedback(bufs, commit, buf_size)
              /\ UNCHANGED feedback_tx
         ELSE UNCHANGED <<feedback_tx, watch>>

\* State::update_feedback on the state after the step (bufs, commit):
\* a send to a dropped receiver fails, stores nothing and clears feedback_tx
UpdateFeedback(bufs, commit) ==
    IF ~feedback_tx
    THEN UNCHANGED <<feedback_tx, watch>>
    ELSE IF rx_alive
         THEN /\ watch' = Feedback(bufs, commit, buf_size)
              /\ UNCHANGED feedback_tx
         ELSE /\ feedback_tx' = FALSE
              /\ UNCHANGED watch

\* ------------------------------------------------------------- the input
\* what poll_next of the input stream can return now: a free stream returns
\* anything; a scripted stream (stream::iter) returns its items in order
\* and then None.  input = [free, items, pos]
Item(k, t) == [kind |-> "item", key |-> k, ts |-> t]

InputOffers(r) ==
    IF input.free
    THEN TRUE
    ELSE IF input.pos > Len(input.items)
         THEN r.kind = "end"
         ELSE r = input.items[input.pos]

\* the input stream after poll_next returned an item: a scripted stream
\* moves to its next item, a free stream only records that it has returned
\* an item (pos = 2)
InputAdvance ==
    input' = IF input.free
             THEN [input EXCEPT !.pos = 2]
             ELSE [input EXCEPT !.pos = input.pos + 1]

InputKeys == Keys \cup {UnknownKey}

Timestamps == 0..MaxTs

\* the (key, timestamp) pairs the input can deliver
InputItems ==
    IF input.free
    THEN {Item(k, t) : k \in InputKeys, t \in Timestamps}
    ELSE {input.items[i] : i \in 1..Len(input.items)}

\* ------------------------------------------------------------- the output
\* an item of the output: kind "group" (Some(Ok(items))), "err"
\* (Some(Err)) or "end" (None).  History fields: commit is commit_ts when
\* the item was yielded, prev_commit is commit_ts before the try_match call
\* that produced a group, inf the inf_timestamp of that call
GroupItem(m, prev) ==
    [kind |-> "group", items |-> m.items, commit |-> m.commit_ts,
     prev_commit |-> prev, inf |-> m.inf]

ErrItem(commit) ==
    [kind |-> "err", items |-> <<>>, commit |-> commit, prev_commit |-> commit,
     inf |-> None]

EndItem(commit) ==
    [kind |-> "end", items |-> <<>>, commit |-> commit, prev_commit |-> commit,
     inf |-> None]

NumEnds(o) == Cardinality({i \in 1..Len(o) : o[i].kind = "end"})

\* the consumer pulls the output stream sync() returned until MaxEnds
\* end-of-output items were seen
ConsumerPolls == pc \notin {"panic", "new", "config_err"} /\ NumEnds(out) < MaxEnds

\* history: the greatest timestamp admitted for a key so far
OptMax(o, t) == IF IsSome(o) /\ Unwrap(o) >= t THEN o ELSE Some(t)

Admit(adm, ok, key, t) ==
    IF ok THEN [adm EXCEPT ![key] = OptMax(adm[key], t)] ELSE adm

\* --------------------------------------------------------------- the driver
\* one iteration of the loop of poll while the input stream is Some
LiveBranch == ConsumerPolls /\ input_stream

\* branch 1, Ready(Some(Ok(item))): push, update_feedback, loop again
FetchNotReady(r) ==
    /\ LiveBranch
    /\ ~is_ready(buffers)
    /\ r.kind = "item" /\ InputOffers(r)
    /\ LET p == push(buffers, last_ts, commit_ts, r.key, r.ts)
       IN  /\ buffers' = p.buffers
           /\ last_ts' = p.last_ts
           /\ admitted' = Admit(admitted, p.ok, r.key, r.ts)
           /\ UpdateFeedback(p.buffers, commit_ts)
    /\ InputAdvance
    /\ pc' = "loop"
    /\ UNCHANGED <<commit_ts, buf_size, window_size, rx_alive, input_stream, out>>
    /\ UNCHANGED bufferVars
    /\ UNCHANGED config

\* branch 3, Ready(Some(Ok(item))): push; on failure update_feedback and
\* loop again; on success try_match, update_feedback, yield the group if any
FetchReady(r) ==
    /\ LiveBranch
    /\ is_ready(buffers) /\ ~is_full(buffers, buf_size)
    /\ r.kind = "item" /\ InputOffers(r)
    /\ LET p == push(buffers, last_ts, commit_ts, r.key, r.ts)
           m == try_match(p.buffers, commit_ts, window_size)
       IN  /\ last_ts' = p.last_ts
           /\ admitted' = Admit(admitted, p.ok, r.key, r.ts)
           /\ IF ~p.ok
              THEN /\ buffers' = p.buffers
                   /\ UpdateFeedback(p.buffers, commit_ts)
                   /\ pc' = "loop"
                   /\ UNCHANGED <<commit_ts, out>>
              ELSE /\ buffers' = m.buffers
                   /\ commit_ts' = m.commit_ts
                   /\ IF m.kind = "panic"
                      THEN /\ pc' = "panic"
                           /\ UNCHANGED <<feedback_tx, watch, out>>
                      ELSE /\ UpdateFeedback(m.buffers, m.commit_ts)
                           /\ IF m.kind = "group"
                              THEN /\ out' = Append(out, GroupItem(m, commit_ts))
                                   /\ pc' = "group"
                              ELSE /\ pc' = "loop"
                                   /\ UNCHANGED out
    /\ InputAdvance
    /\ UNCHANGED <<buf_size, window_size, rx_alive, input_stream>>
    /\ UNCHANGED bufferVars
    /\ UNCHANGED config

\* branches 1 and 3, Ready(Some(Err(err))): drop the input, yield the error
InputErr ==
    /\ LiveBranch
    /\ ~is_ready(buffers) \/ ~is_full(buffers, buf_size)
    /\ InputOffers([kind |-> "err"])
    /\ input_stream' = FALSE
    /\ out' = Append(out, ErrItem(commit_ts))
    /\ pc' = "err"
    /\ UNCHANGED <<buffers, last_ts, commit_ts, buf_size, window_size,
                   feedback_tx, watch, rx_alive, input, admitted>>
    /\ UNCHANGED bufferVars
    /\ UNCHANGED config

\* branches 1 and 3, Ready(None): drop the input, break None
InputEnd ==
    /\ LiveBranch
    /\ ~is_ready(buffers) \/ ~is_full(buffers, buf_size)
    /\ InputOffers([kind |-> "end"])
    /\ input_stream' = FALSE
    /\ out' = Append(out, EndItem(commit_ts))
    /\ pc' = "end"
    /\ UNCHANGED <<buffers, last_ts, commit_ts, buf_size, window_size,
                   feedback_tx, watch, rx_alive, input, admitted>>
    /\ UNCHANGED bufferVars
    /\ UNCHANGED config

\* branches 1 and 3, Pending: return Pending
InputPending ==
    /\ LiveBranch
    /\ ~is_ready(buffers) \/ ~is_full(buffers, buf_size)
    /\ InputOffers([kind |-> "pending"])
    /\ pc' = "pending"
    /\ UNCHANGED <<buffers, last_ts, commit_ts, buf_size, window_size,
                   feedback_tx, watch, rx_alive, input, input_stream, out, admitted>>
    /\ UNCHANGED bufferVars
    /\ UNCHANGED config

\* branch 2: try_match; on success update_feedback and yield the group,
\* on failure drop_min, update_feedback and loop again
LiveFull ==
    /\ LiveBranch
    /\ is_ready(buffers) /\ is_full(buffers, buf_size)
    /\ LET m == try_match(buffers, commit_ts, window_size)
           d == drop_min(buffers)
       IN  CASE m.kind = "group" ->
                   /\ buffers' = m.buffers
                   /\ commit_ts' = m.commit_ts
                   /\ UpdateFeedback(m.buffers, m.commit_ts)
                   /\ out' = Append(out, GroupItem(m, commit_ts))
                   /\ pc' = "group"
             [] m.kind = "none" ->
                   /\ buffers' = d.buffers
                   /\ UpdateFeedback(d.buffers, commit_ts)
                   /\ pc' = "loop"
                   /\ UNCHANGED <<commit_ts, out>>
             [] m.kind = "panic" ->
                   /\ buffers' = m.buffers
                   /\ pc' = "panic"
                   /\ UNCHANGED <<commit_ts, feedback_tx, watch, out>>
    /\ UNCHANGED <<last_ts, buf_size, window_size, rx_alive, input, input_stream, admitted>>
    /\ UNCHANGED bufferVars
    /\ UNCHANGED config

\* one iteration of the loop of poll once the input stream is None
Drain ==
    /\ ConsumerPolls
    /\ ~input_stream
    /\ LET m == try_match(buffers, commit_ts, window_size)
           d == drop_min(buffers)
       IN  IF is_empty(buffers)
           THEN /\ out' = Append(out, EndItem(commit_ts))
                /\ pc' = "end"
                /\ UNCHANGED <<buffers, commit_ts>>
           ELSE CASE m.kind = "group" ->
                       /\ buffers' = m.buffers
                       /\ commit_ts' = m.commit_ts
                       /\ out' = Append(out, GroupItem(m, commit_ts))
                       /\ pc' = "group"
                 [] m.kind = "none" ->
                       /\ buffers' = d.buffers
                       /\ pc' = "loop"
                       /\ UNCHANGED <<commit_ts, out>>
                 [] m.kind = "panic" ->
                       /\ buffers' = m.buffers
                       /\ pc' = "panic"
                       /\ UNCHANGED <<commit_ts, out>>
    /\ UNCHANGED <<last_ts, buf_size, window_size, feedback_tx, watch, rx_alive,
                   input, input_stream, admitted>>
    /\ UNCHANGED bufferVars
    /\ UNCHANGED config

\* the holder of the FeedbackReceiver drops it
DropReceiver ==
    /\ rx_alive
    /\ rx_alive' = FALSE
    /\ UNCHANGED <<buffers, last_ts, commit_ts, buf_size, window_size, feedback_tx,
                   watch, input, input_stream, pc, out, admitted>>
    /\ UNCHANGED bufferVars
    /\ UNCHANGED config

\* ------------------------------------------------- the data path of poll
\* the part of the state the data path reads and writes: the buffers, the
\* watermark, the Option of the input and what the output has yielded
DataState(b, l, c, s, p, o) ==
    [buffers |-> b, last_ts |-> l, commit_ts |-> c, input_stream |-> s, pc |-> p, out |-> o]

Data == DataState(buffers, last_ts, commit_ts, input_stream, pc, out)

\* the data state after a try_match that returned m; nomatch is the buffers
\* the iteration leaves when m is None
MatchOutcome(m, lasts, nomatch) ==
    CASE m.kind = "group" ->
            DataState(m.buffers, lasts, m.commit_ts, input_stream, "group",
                      Append(out, GroupItem(m, commit_ts)))
      [] m.kind = "none" ->
            DataState(nomatch, lasts, commit_ts, input_stream, "loop", out)
      [] m.kind = "panic" ->
            DataState(m.buffers, lasts, commit_ts, input_stream, "panic", out)

\* branches 1 and 3 of the live loop for the item r
FetchOutcome(r) ==
    LET p == push(buffers, last_ts, commit_ts, r.key, r.ts)
    IN  IF ~is_ready(buffers) \/ ~p.ok
        THEN DataState(p.buffers, p.last_ts, commit_ts, TRUE, "loop", out)
        ELSE MatchOutcome(try_match(p.buffers, commit_ts, window_size), p.last_ts, p.buffers)

\* the data states one iteration of the loops of poll can lead to
PollOutcomes ==
    IF ~ConsumerPolls
    THEN {}
    ELSE IF ~input_stream
    THEN IF is_empty(buffers)
         THEN {DataState(buffers, last_ts, commit_ts, FALSE, "end",
                         Append(out, EndItem(commit_ts)))}
         ELSE {MatchOutcome(try_match(buffers, commit_ts, window_size), last_ts,
                            drop_min(buffers).buffers)}
    ELSE IF is_ready(buffers) /\ is_full(buffers, buf_size)
    THEN {MatchOutcome(try_match(buffers, commit_ts, window_size), last_ts,
                       drop_min(buffers).buffers)}
    ELSE {FetchOutcome(r) : r \in InputItems}
         \cup {DataState(buffers, last_ts, commit_ts, FALSE, "err",
                         Append(out, ErrItem(commit_ts))),
               DataState(buffers, last_ts, commit_ts, FALSE, "end",
                         Append(out, EndItem(commit_ts))),
               DataState(buffers, last_ts, commit_ts, TRUE, "pending", out)}

\* ------------------------------------------------------------ construction
\* the state sync() builds from a valid Config
Constructed(start_time, size, w, stream) ==
    /\ buffers = [k \in Keys |-> <<>>]
    /\ last_ts = [k \in Keys |-> None]
    /\ commit_ts = start_time
    /\ buf_size = size
    /\ window_size = w
    /\ feedback_tx = TRUE
    /\ watch = [accepted_keys |-> KeyOrder,
                accepted_max_timestamp |-> None,
                commit_timestamp |-> None]
    /\ rx_alive = TRUE
    /\ input = stream
    /\ input_stream = TRUE
    /\ pc = "idle"
    /\ out = <<>>
    /\ admitted = [k \in Keys |-> None]
    /\ config = [keys |-> KeyOrder, window_size |-> w, start_time |-> start_time,
                 buf_size |-> size]

\* mutant: an empty key set is accepted
sync_AllowsNoKeys(cfg) ==
    IF ~(cfg.buf_size >= 2)
    THEN [ok |-> FALSE, failed |-> "buf_size >= 2"]
    ELSE IF ~(cfg.window_size > 0)
         THEN [ok |-> FALSE, failed |-> "window_size > Duration::ZERO"]
         ELSE [ok |-> TRUE, failed |-> ""]

\* the checks of sync(), in the order of the code: Err of the first ensure!
\* that fails, Ok when none does
sync(cfg) ==
    IF ~(cfg.buf_size >= 2)
    THEN [ok |-> FALSE, failed |-> "buf_size >= 2"]
    ELSE IF ~(cfg.window_size > 0)
         THEN [ok |-> FALSE, failed |-> "window_size > Duration::ZERO"]
         ELSE IF cfg.keys = <<>>
              THEN [ok |-> FALSE, failed |-> "!buffers.is_empty()"]
              ELSE [ok |-> TRUE, failed |-> ""]

\* no session: sync() was not called yet, or it returned Err; there is no
\* State, no output stream and no feedback receiver
NoSession(position) ==
    /\ buffers = [k \in Keys |-> <<>>]
    /\ last_ts = [k \in Keys |-> None]
    /\ commit_ts = None
    /\ buf_size = 0
    /\ window_size = 0
    /\ feedback_tx = FALSE
    /\ watch = [accepted_keys |-> <<>>,
                accepted_max_timestamp |-> None,
                commit_timestamp |-> None]
    /\ rx_alive = FALSE
    /\ input = [free |-> TRUE, items |-> <<>>, pos |-> 1]
    /\ input_stream = FALSE
    /\ pc = position
    /\ out = <<>>
    /\ admitted = [k \in Keys |-> None]

\* an input stream that can return anything at every poll_next
FreeStream == [free |-> TRUE, items |-> <<>>, pos |-> 1]

\* stream::iter(items): pos is the index of the next item
ScriptedStream(items) == [free |-> FALSE, items |-> items, pos |-> 1]

\* Buffer::with_capacity
EmptyBuffer == [buffer |-> <<>>, last_ts |-> None]

BufferIdle ==
    /\ buf = EmptyBuffer
    /\ buf_ret = [op |-> "with_capacity", arg |-> 0, ok |-> TRUE, count |-> 0, item |-> None]
    /\ buf_admitted = None

\* the timestamps pushed to the stand-alone Buffer
BufTimestamps == 0..MaxBufTs

\* the result of the last call on the stand-alone Buffer
Ret(op, arg, ok, count, item) ==
    [op |-> op, arg |-> arg, ok |-> ok, count |-> count, item |-> item]

BufTryPush(t) ==
    /\ LET r == try_push(buf, t)
       IN  /\ buf' = [buffer |-> r.buffer, last_ts |-> r.last_ts]
           /\ buf_ret' = Ret("try_push", t, r.ok, 0, r.err)
           /\ buf_admitted' = IF r.ok THEN OptMax(buf_admitted, t) ELSE buf_admitted
    /\ UNCHANGED sessionVars
    /\ UNCHANGED config

BufPopFront ==
    /\ LET r == pop_front(buf)
       IN  /\ buf' = [buffer |-> r.buffer, last_ts |-> r.last_ts]
           /\ buf_ret' = Ret("pop_front", 0, IsSome(r.item), 0, r.item)
    /\ UNCHANGED <<buf_admitted>>
    /\ UNCHANGED sessionVars
    /\ UNCHANGED config

BufDropBefore(ts) ==
    /\ LET r == drop_before(buf, ts)
       IN  /\ buf' = [buffer |-> r.buffer, last_ts |-> r.last_ts]
           /\ buf_ret' = Ret("drop_before", ts, TRUE, r.count, None)
    /\ UNCHANGED <<buf_admitted>>
    /\ UNCHANGED sessionVars
    /\ UNCHANGED config

\* a session over a free input stream; the stand-alone Buffer is not used
Init ==
    /\ \E start_time \in {None, Some(1)}, size \in 2..MaxBufSize, w \in 1..MaxWindow :
          Constructed(start_time, size, w, FreeStream)
    /\ BufferIdle

\* the steps of poll; the FeedbackReceiver is held by its owner
Next ==
    \/ \E r \in InputItems : FetchNotReady(r)
    \/ \E r \in InputItems : FetchReady(r)
    \/ InputErr
    \/ InputEnd
    \/ InputPending
    \/ LiveFull
    \/ Drain

Spec == Init /\ [][Next]_vars

\* the session when the FeedbackReceiver can be dropped at any time
RxNext ==
    \/ Next
    \/ DropReceiver

RxSpec == Init /\ [][RxNext]_vars

\* the configurations sync() is called with: the configured keys or none,
\* every buf_size and window_size from 0 up
Configs ==
    [keys : {<<>>, KeyOrder},
     window_size : 0..MaxWindow,
     start_time : {None, Some(1)},
     buf_size : 0..MaxBufSize]

\* the call of sync(): Err and nothing else, or the session
SyncCall ==
    /\ pc = "new"
    /\ IF sync(config).ok
       THEN /\ buffers' = [k \in Keys |-> <<>>]
            /\ last_ts' = [k \in Keys |-> None]
            /\ commit_ts' = config.start_time
            /\ buf_size' = config.buf_size
            /\ window_size' = config.window_size
            /\ feedback_tx' = TRUE
            /\ watch' = [accepted_keys |-> config.keys,
                         accepted_max_timestamp |-> None,
                         commit_timestamp |-> None]
            /\ rx_alive' = TRUE
            /\ input' = FreeStream
            /\ input_stream' = TRUE
            /\ pc' = "idle"
       ELSE /\ pc' = "config_err"
            /\ UNCHANGED <<buffers, last_ts, commit_ts, buf_size, window_size,
                           feedback_tx, watch, rx_alive, input, input_stream>>
    /\ UNCHANGED <<out, admitted, config>>
    /\ UNCHANGED bufferVars

CfgInit ==
    /\ \E cfg \in Configs : config = cfg
    /\ NoSession("new")
    /\ BufferIdle

CfgNext ==
    \/ SyncCall
    \/ Next

\* sync() called with any configuration, then the session if there is one
CfgSpec == CfgInit /\ [][CfgNext]_vars

\* a stand-alone Buffer driven by arbitrary calls, beside a session that
\* starts late (start_time = MaxTs - 2)
BufInit ==
    /\ \E size \in 2..MaxBufSize, w \in 1..MaxWindow :
          Constructed(Some(MaxTs - 2), size, w, FreeStream)
    /\ BufferIdle

BufNext ==
    \/ \E t \in BufTimestamps : BufTryPush(t)
    \/ BufPopFront
    \/ \E ts \in 0..(MaxBufTs + 1) : BufDropBefore(ts)
    \/ Next

BufSpec == BufInit /\ [][BufNext]_vars

\* the consumer keeps pulling the output once the input is gone, and the
\* loop of poll keeps running
FairSpec == Spec /\ WF_vars(Drain)

\* the messages of the configured keys with the timestamps below MaxTs
LiveItems == {Item(k, t) : k \in Keys, t \in 0..(MaxTs - 1)}

LiveInit ==
    /\ \E size \in 2..MaxBufSize, w \in 1..MaxWindow :
          Constructed(None, size, w, FreeStream)
    /\ BufferIdle

LiveNext ==
    \/ \E r \in LiveItems : FetchNotReady(r)
    \/ \E r \in LiveItems : FetchReady(r)
    \/ InputErr
    \/ InputEnd
    \/ InputPending
    \/ LiveFull
    \/ Drain

\* a session over a free input stream in which the loop of poll keeps
\* running while it is in branch 2
LiveFairSpec == LiveInit /\ [][LiveNext]_vars /\ WF_vars(LiveFull)

\* --------------------------------------------------------------- scenarios
\* window_size of the crate-level usage example
ExampleWindowSize == 500

\* buf_size of the crate-level usage example
ExampleBufSize == 16

\* the input of the crate-level usage example: select() of stream_x and stream_y
S1Input ==
    <<Item("X", 1001), Item("Y", 998), Item("X", 1999),
      Item("Y", 2003), Item("X", 3000), Item("Y", 3002)>>

\* closest-candidate scenario
S2Input ==
    <<Item("X", 1000), Item("X", 1200), Item("X", 1600),
      Item("Y", 1100), Item("Y", 1550), Item("Y", 1700)>>

OfKey(items, k) == SelectSeq(items, LAMBDA r : r.key = k)

\* every order in which select() can deliver the items of two streams
RECURSIVE Merges(_, _)
Merges(a, b) ==
    IF a = <<>> THEN {b}
    ELSE IF b = <<>> THEN {a}
    ELSE {<<Head(a)>> \o m : m \in Merges(Tail(a), b)}
         \cup {<<Head(b)>> \o m : m \in Merges(a, Tail(b))}

Scripts ==
    Merges(OfKey(S1Input, "X"), OfKey(S1Input, "Y"))
    \cup Merges(OfKey(S2Input, "X"), OfKey(S2Input, "Y"))

\* a session over a finite scripted input
ScenInit ==
    /\ \E script \in Scripts, size \in {2, ExampleBufSize} :
          Constructed(None, size, ExampleWindowSize, ScriptedStream(script))
    /\ BufferIdle

\* a stream::iter input never returns an error or Pending
ScenNext ==
    \/ \E r \in InputItems : FetchNotReady(r)
    \/ \E r \in InputItems : FetchReady(r)
    \/ InputEnd
    \/ LiveFull
    \/ Drain

ScenSpec == ScenInit /\ [][ScenNext]_vars

\* the usage example with one message of an unknown key somewhere in it
UnknownKeyItem == Item(UnknownKey, 1234)

Inserts(q, x) ==
    {SubSeq(q, 1, i) \o <<x>> \o SubSeq(q, i + 1, Len(q)) : i \in 0..Len(q)}

UnknownKeyScripts ==
    UNION {Inserts(m, UnknownKeyItem) :
              m \in Merges(OfKey(S1Input, "X"), OfKey(S1Input, "Y"))}

UnknownKeyInit ==
    /\ \E script \in UnknownKeyScripts, size \in {2, ExampleBufSize} :
          Constructed(None, size, ExampleWindowSize, ScriptedStream(script))
    /\ BufferIdle

UnknownKeySpec == UnknownKeyInit /\ [][ScenNext]_vars

\* ------------------------------------------------------------------ claims
Last(q) == q[Len(q)]

Groups == {i \in 1..Len(out) : out[i].kind = "group"}

ItemKeys(g) == [i \in 1..Len(g.items) |-> g.items[i].key]

ItemTs(g) == {g.items[i].ts : i \in 1..Len(g.items)}

OptLeq(a, b) == ~IsSome(a) \/ (IsSome(b) /\ Unwrap(a) <= Unwrap(b))

\* C1: every group the output yields holds exactly one message for each
\* configured key (a key whose first message outside the drop range lies
\* above window_end makes try_match return no group).
C1_GroupsComplete ==
    \A i \in Groups : ItemKeys(out[i]) = KeyOrder

\* C2: once the input has ended the drain loop terminates: after finitely
\* many groups the output yields end-of-output with every buffer empty.
C2_DrainTerminates ==
    (~input_stream) ~> (~input_stream /\ pc = "end" /\ is_empty(buffers))

\* C3: end-of-output is yielded only when every buffer is empty.
C3_EndOnlyWhenEmpty ==
    pc = "end" => is_empty(buffers)

\* C4: commit_ts never decreases, and the commit timestamps of successive
\* groups are in non-decreasing order.
C4_CommitMonotone ==
    [][/\ OptLeq(commit_ts, commit_ts')
       /\ \A i \in Groups : \A j \in 1..Len(out') :
             (j > Len(out) /\ out'[j].kind = "group")
                => Unwrap(out[i].commit) <= Unwrap(out'[j].commit)]_vars

C4_Witness ==
    \E i, j \in Groups : i < j /\ Unwrap(out[i].commit) < Unwrap(out[j].commit)

\* C5: every message of an emitted group has a timestamp strictly greater
\* than the commit_ts in force before the try_match call that produced it.
C5_AbovePrevCommit ==
    \A i \in Groups :
        IsSome(out[i].prev_commit)
            => \A t \in ItemTs(out[i]) : t > Unwrap(out[i].prev_commit)

C5_Witness ==
    \E i \in Groups : IsSome(out[i].prev_commit) /\ Len(out[i].items) = Len(KeyOrder)

\* C6: the spread of an emitted group is at most 2 * window_size and every
\* message of it lies in [sat_sub(inf, window_size), inf + window_size].
C6_InsideWindow ==
    \A i \in Groups :
        /\ SetMax(ItemTs(out[i])) - SetMin(ItemTs(out[i])) <= 2 * window_size
        /\ \A t \in ItemTs(out[i]) :
              /\ saturating_sub(Unwrap(out[i].inf), window_size) <= t
              /\ t <= Unwrap(out[i].inf) + window_size

C6_Witness ==
    \E i \in Groups :
        /\ ItemKeys(out[i]) = KeyOrder
        /\ Unwrap(out[i].inf) + window_size \in ItemTs(out[i])
        /\ Unwrap(out[i].inf) > window_size

\* what the consumer sees of an output item
Seen(o) == [kind |-> o.kind, items |-> o.items]

SeenGroup(x, y) ==
    [kind |-> "group", items |-> <<[key |-> "X", ts |-> x], [key |-> "Y", ts |-> y]>>]

SeenEnd == [kind |-> "end", items |-> <<>>]

\* the output up to and including the first end-of-output
FirstEnd == SetMin({i \in 1..Len(out) : out[i].kind = "end"})

IsScenario(script) == ~input.free /\ input.items = script /\ buf_size = ExampleBufSize

\* C7: for the input S1 the output is the three groups {X:1001,Y:998},
\* {X:1999,Y:2003}, {X:3000,Y:3002} with commit timestamps 998, 1999, 3000,
\* followed by end-of-output.
C7_S1Output ==
    (IsScenario(S1Input) /\ NumEnds(out) >= 1)
        => /\ [i \in 1..FirstEnd |-> Seen(out[i])]
                = <<SeenGroup(1001, 998), SeenGroup(1999, 2003),
                    SeenGroup(3000, 3002), SeenEnd>>
           /\ [i \in 1..(FirstEnd - 1) |-> out[i].commit]
                = <<Some(998), Some(1999), Some(3000)>>

C12_DropBeforeExact ==
    [][(buf_ret'.op = "drop_before" /\ <<buf, buf_ret>>' # <<buf, buf_ret>>)
          => LET ts == buf_ret'.arg
                 n == buf_ret'.count
             IN  /\ buf'.buffer = SelectSeq(buf.buffer, LAMBDA t : t >= ts)
                 /\ n = Cardinality({i \in 1..Len(buf.buffer) : buf.buffer[i] < ts})
                 /\ buf.buffer = SubSeq(buf.buffer, 1, n) \o buf'.buffer
                 /\ buf.buffer = <<>> => n = 0
                 /\ buf'.last_ts = buf.last_ts]_vars

C12_Witness ==
    /\ buf_ret.op = "drop_before" /\ buf_ret.count >= 2
    /\ Len(buf.buffer) >= 1
    /\ Front(buf.buffer) = buf_ret.arg

C14_UnknownKeyRejected ==
    /\ [](\A i \in Groups : \A j \in 1..Len(out[i].items) : out[i].items[j].key \in Keys)
    /\ [](\A t \in {UnknownKeyItem.ts} :
            LET p == push(buffers, last_ts, commit_ts, UnknownKey, t)
            IN  ~p.ok /\ p.buffers = buffers /\ p.last_ts = last_ts)
    /\ [][(input'.pos = input.pos + 1 /\ input.items[input.pos].key = UnknownKey)
            => /\ buffers' = buffers
               /\ last_ts' = last_ts
               /\ commit_ts' = commit_ts
               /\ out' = out
               /\ watch' = [accepted_keys |->
                                SelectSeq(KeyOrder, LAMBDA k : Len(buffers[k]) < buf_size),
                            accepted_max_timestamp |-> None,
                            commit_timestamp |-> commit_ts]]_vars

C14_Witness ==
    /\ ~input.free /\ input.pos > 1
    /\ input.items[input.pos - 1].key = UnknownKey
    /\ pc = "loop"
    /\ watch.accepted_keys = <<"Y">>
    /\ Len(buffers["X"]) = buf_size /\ buffers["Y"] # <<>>

\* C15: once the output has yielded the error of the input, every later
\* item of the output is end-of-output: no group and no second error.
C15_ErrorIsTerminal ==
    \A i \in 1..Len(out) : \A j \in 1..Len(out) :
        (out[i].kind = "err" /\ i < j) => out[j].kind = "end"

\* C16: before any input is consumed the feedback watch holds all configured
\* keys in construction order, no accepted_max_timestamp, and the configured
\* start_time as commit_timestamp.
C16_InitialFeedback ==
    pc = "idle"
        => watch = [accepted_keys |-> KeyOrder,
                    accepted_max_timestamp |-> None,
                    commit_timestamp |-> commit_ts]

\* C17: a step of poll that calls update_feedback while the receiver is
\* alive leaves in the watch a snapshot of the state after the step:
\* accepted_keys is the configured keys, in key order, whose buffer is below
\* buf_size, commit_timestamp is commit_ts; accepted_max_timestamp is
\* always unset.
C17_FeedbackSnapshot ==
    /\ [](watch.accepted_max_timestamp = None)
    /\ [][(feedback_tx /\ rx_alive /\ rx_alive' /\ input_stream'
              /\ pc' \in {"loop", "group"})
            => /\ watch'.accepted_keys
                    = SelectSeq(KeyOrder, LAMBDA k : Len(buffers'[k]) < buf_size)
               /\ watch'.commit_timestamp = commit_ts'
               /\ watch'.accepted_max_timestamp = None]_vars

C17_Witness ==
    /\ feedback_tx /\ rx_alive /\ input_stream
    /\ pc = "group"
    /\ watch.accepted_keys = <<"Y">>
    /\ watch.commit_timestamp = commit_ts /\ IsSome(commit_ts)
    /\ commit_ts # out[Len(out)].prev_commit

\* C18: dropping the feedback receiver has no effect on the data path: the
\* step that drops it changes nothing else, and every step of poll, whether
\* and whenever the receiver was dropped, takes the buffers, commit_ts and
\* the output to what the iteration computes from the data state and the
\* input alone; the first send that fails clears feedback_tx, and with
\* feedback_tx cleared the watch and feedback_tx never change again.
C18_ReceiverDropHarmless ==
    /\ [][Data' = Data \/ Data' \in PollOutcomes]_vars
    /\ [][rx_alive' # rx_alive => Data' = Data]_vars
    /\ [][(feedback_tx /\ ~rx_alive /\ input_stream' /\ pc' \in {"loop", "group"})
            => (~feedback_tx' /\ watch' = watch)]_vars
    /\ [][~feedback_tx => (~feedback_tx' /\ watch' = watch)]_vars

C18_Witness ==
    /\ ~rx_alive /\ ~feedback_tx
    /\ pc = "group"
    /\ watch.commit_timestamp # commit_ts
    /\ \E k \in Keys : Len(buffers[k]) = buf_size

\* C19: sync() returns a configuration error, and neither an output stream
\* nor a feedback receiver, exactly when buf_size < 2, window_size = 0 or the
\* key set is empty; for every other configuration it returns the session.
C19_ConstructionValidates ==
    /\ [](pc # "new" =>
            (pc = "config_err"
                <=> (config.buf_size < 2 \/ config.window_size = 0 \/ config.keys = <<>>)))
    /\ [](pc = "config_err" => (~input_stream /\ ~feedback_tx /\ ~rx_alive /\ out = <<>>))
    /\ [][(pc = "new" /\ pc' # "config_err")
            => /\ pc' = "idle" /\ input_stream' /\ feedback_tx' /\ rx_alive'
               /\ buf_size' = config.buf_size
               /\ window_size' = config.window_size
               /\ commit_ts' = config.start_time
               /\ DOMAIN buffers' = {config.keys[i] : i \in 1..Len(config.keys)}]_vars

C19_Witness ==
    /\ pc = "config_err"
    /\ config.keys = <<>> /\ config.buf_size >= 2 /\ config.window_size > 0

CallBuffers ==
    {buffers} \cup {push(buffers, last_ts, commit_ts, r.key, r.ts).buffers : r \in InputItems}

\* C21: try_match returns no group whenever inf_timestamp or sup_timestamp is
\* undefined or inf + window_size > sup, and then leaves every buffer and
\* commit_ts as they were (it has no access to last_ts); it returns a group
\* only when inf + window_size <= sup.
C21_GateFrame ==
    \A bufs \in CallBuffers :
        LET inf == inf_timestamp(bufs)
            sup == sup_timestamp(bufs)
            m == try_match(bufs, commit_ts, window_size)
            closed == \/ ~IsSome(inf)
                      \/ ~IsSome(sup)
                      \/ Unwrap(inf) + window_size > Unwrap(sup)
        IN  /\ closed => (m.kind = "none" /\ m.buffers = bufs /\ m.commit_ts = commit_ts)
            /\ m.kind # "none" => Unwrap(inf) + window_size <= Unwrap(sup)

C21_Witness ==
    /\ ConsumerPolls /\ input_stream
    /\ is_ready(buffers) /\ is_full(buffers, buf_size)
    /\ IsSome(commit_ts)
    /\ Unwrap(inf_timestamp(buffers)) + window_size > Unwrap(sup_timestamp(buffers))
    /\ Unwrap(inf_timestamp(buffers)) <= Unwrap(sup_timestamp(buffers))

\* the messages of a buffer that are inside the window and outside the drop
\* range of a try_match call with the given commit_ts, inf and window_size
Eligible(q, commit, inf, w) ==
    {q[i] : i \in {j \in 1..Len(q) :
                      /\ ~DropRangeContains(commit, saturating_sub(inf, w), q[j])
                      /\ ~UntouchedRangeContains(saturating_add(inf, w), q[j])}}

\* the message of S closest to inf, the earlier one of two equally close
Closest(S, inf) ==
    CHOOSE c \in S : \A t \in S :
        \/ duration_diff(inf, c) < duration_diff(inf, t)
        \/ (duration_diff(inf, c) = duration_diff(inf, t) /\ c <= t)

\* C22: the message try_match takes from a contributing key is the one
\* closest to inf among the messages of that key's buffer that are inside
\* the window and outside the drop range at the call, the earlier one when
\* two are equally close.
C22_ClosestCandidate ==
    \A bufs \in CallBuffers :
        LET m == try_match(bufs, commit_ts, window_size)
        IN  m.kind = "group" =>
                \A j \in 1..Len(m.items) :
                    LET e == Eligible(bufs[m.items[j].key], commit_ts,
                                      Unwrap(m.inf), window_size)
                    IN  /\ m.items[j].ts \in e
                        /\ m.items[j].ts = Closest(e, Unwrap(m.inf))

C22_Witness ==
    /\ ConsumerPolls /\ input_stream
    /\ is_ready(buffers) /\ is_full(buffers, buf_size)
    /\ LET m == try_match(buffers, commit_ts, window_size)
       IN  /\ m.kind = "group"
           /\ \E j \in 1..Len(m.items) :
                 LET e == Eligible(buffers[m.items[j].key], commit_ts,
                                   Unwrap(m.inf), window_size)
                 IN  /\ Cardinality(e) >= 2
                     /\ m.items[j].ts # SetMin(e)

\* C23: after every try_match that returned a group, commit_ts is the
\* smallest timestamp of that group.
C23_CommitIsGroupMin ==
    /\ \A i \in Groups : out[i].commit = Some(SetMin(ItemTs(out[i])))
    /\ pc = "group" => commit_ts = Some(SetMin(ItemTs(out[Len(out)])))
    /\ \A bufs \in CallBuffers :
          LET m == try_match(bufs, commit_ts, window_size)
          IN  m.kind = "group"
                  => m.commit_ts = Some(SetMin({m.items[j].ts : j \in 1..Len(m.items)}))

C23_Witness ==
    /\ pc = "group"
    /\ Cardinality(ItemTs(out[Len(out)])) = 2
    /\ commit_ts = Some(SetMin(ItemTs(out[Len(out)])))
    /\ out[Len(out)].items[1].ts > out[Len(out)].items[2].ts

\* the front (back) timestamps of the non-empty buffers
Fronts(bufs) == {Front(bufs[k]) : k \in {j \in Keys : bufs[j] # <<>>}}

Backs(bufs) == {Back(bufs[k]) : k \in {j \in Keys : bufs[j] # <<>>}}

\* C24 as stated: inf_timestamp is the maximum of the fronts and
\* sup_timestamp the minimum of the backs over the non-empty buffers, each
\* undefined only when every buffer is empty.
C24_OverNonEmptyAsClaimed ==
    /\ inf_timestamp(buffers)
          = IF is_empty(buffers) THEN None ELSE Some(SetMax(Fronts(buffers)))
    /\ sup_timestamp(buffers)
          = IF is_empty(buffers) THEN None ELSE Some(SetMin(Backs(buffers)))

\* C24 (amended): inf_timestamp and sup_timestamp are undefined as soon as
\* one buffer is empty; when no buffer is empty inf_timestamp is the maximum
\* of the fronts and sup_timestamp the minimum of the backs.
C24_InfSup ==
    \A bufs \in CallBuffers :
        IF \E k \in Keys : bufs[k] = <<>>
        THEN inf_timestamp(bufs) = None /\ sup_timestamp(bufs) = None
        ELSE /\ inf_timestamp(bufs) = Some(SetMax(Fronts(bufs)))
             /\ sup_timestamp(bufs) = Some(SetMin(Backs(bufs)))

C24_Witness ==
    /\ ~input_stream /\ pc = "loop" /\ Groups # {}
    /\ buffers["X"] = <<>> /\ Len(buffers["Y"]) >= 2
    /\ inf_timestamp(buffers) = None /\ sup_timestamp(buffers) = None

\* the next iteration of poll calls drop_min: try_match fails in branch 2
\* or in the drain loop
DropMinCalled ==
    /\ ConsumerPolls
    /\ \/ input_stream /\ is_ready(buffers) /\ is_full(buffers, buf_size)
       \/ ~input_stream /\ ~is_empty(buffers)
    /\ try_match(buffers, commit_ts, window_size).kind = "none"

\* C25: whenever drop_min is called with at least one non-empty buffer,
\* min_timestamp is the smallest front timestamp and drop_min removes a
\* front message with that timestamp and returns true; it returns false,
\* removing nothing, only when every buffer is empty.
C25_DropMinDrops ==
    DropMinCalled =>
        LET d == drop_min(buffers)
        IN  /\ ~is_empty(buffers) =>
                  /\ min_timestamp(buffers) = Some(SetMin(Fronts(buffers)))
                  /\ d.dropped
                  /\ \E k \in Keys :
                        /\ buffers[k] # <<>>
                        /\ Front(buffers[k]) = SetMin(Fronts(buffers))
                        /\ d.buffers[k] = PopFront(buffers[k])
            /\ ~d.dropped => (is_empty(buffers) /\ d.buffers = buffers)

\* C26: a drop_min call that drops removes exactly one message in total:
\* one buffer loses its front and every other buffer is unchanged, also when
\* several fronts equal the minimum timestamp.
C26_SingleDrop ==
    DropMinCalled =>
        LET d == drop_min(buffers)
            changed == {k \in Keys : d.buffers[k] # buffers[k]}
        IN  d.dropped =>
                /\ Cardinality(changed) = 1
                /\ \A k \in changed : d.buffers[k] = PopFront(buffers[k])

\* the states try_match can be called in from the current state: buffers
\* and last_ts as they are, or after the push of any item
CallStates ==
    {[buffers |-> buffers, last_ts |-> last_ts]}
    \cup {[buffers |-> push(buffers, last_ts, commit_ts, r.key, r.ts).buffers,
           last_ts |-> push(buffers, last_ts, commit_ts, r.key, r.ts).last_ts] :
              r \in InputItems}

Spinning == ConsumerPolls /\ input_stream /\ is_ready(buffers) /\ is_full(buffers, buf_size)

\* the number of buffered messages
Buffered == Len(buffers["X"]) + Len(buffers["Y"])

\* C28: the live loop cannot stay in branch 2 forever: an iteration of
\* branch 2 that yields nothing removes at least one message, and from
\* every state in branch 2 poll reaches a state where it yields a group or
\* leaves branch 2 (and so polls the input again).
C28_LiveLoopProgress ==
    /\ [][(Spinning /\ pc' = "loop") => Buffered' < Buffered]_vars
    /\ Spinning ~> (~Spinning \/ pc = "group")

C28_Witness ==
    /\ Spinning /\ pc = "loop"
    /\ try_match(buffers, commit_ts, window_size).kind = "none"
    /\ \E k \in Keys : Len(buffers[k]) > buf_size

\* C29: with commit_ts set, every buffered message has a timestamp strictly
\* above commit_ts, also right after a group raised commit_ts.
C29_BufferedAboveCommit ==
    IsSome(commit_ts)
        => \A k \in Keys : \A i \in 1..Len(buffers[k]) : buffers[k][i] > Unwrap(commit_ts)

C29_Witness ==
    /\ pc = "group"
    /\ commit_ts = out[Len(out)].commit
    /\ commit_ts # out[Len(out)].prev_commit
    /\ \A k \in Keys : buffers[k] # <<>> /\ Front(buffers[k]) = Unwrap(commit_ts) + 1

\* the buffers the next iteration of poll calls try_match on: those of the
\* state in branch 2 and in the drain loop, those after an admitted push in
\* branch 3
TryMatchCalls ==
    IF ~ConsumerPolls
    THEN {}
    ELSE IF ~input_stream
    THEN IF is_empty(buffers) THEN {} ELSE {buffers}
    ELSE IF ~is_ready(buffers)
    THEN {}
    ELSE IF is_full(buffers, buf_size)
    THEN {buffers}
    ELSE {push(buffers, last_ts, commit_ts, r.key, r.ts).buffers :
             r \in {i \in InputItems : push(buffers, last_ts, commit_ts, i.key, i.ts).ok}}

\* C30: try_match removes from the buffers only messages with a timestamp
\* at or below window_end: a message above the window stays in its buffer,
\* whether or not the call returns a group.
C30_UntouchedStay ==
    \A bufs \in TryMatchCalls :
        LET m == try_match(bufs, commit_ts, window_size)
        IN  GatePasses(bufs, window_size)
                => \A k \in Keys : \A i \in 1..Len(bufs[k]) :
                      UntouchedRangeContains(
                          saturating_add(Unwrap(m.inf), window_size), bufs[k][i])
                          => \E j \in 1..Len(m.buffers[k]) : m.buffers[k][j] = bufs[k][i]

\* C31: for each key the timestamps emitted in successive groups are
\* strictly increasing, a group holds at most one message of a key, and so
\* no admitted message (a key and its timestamp) is emitted twice.
C31_EmittedIncreasing ==
    /\ \A i \in Groups : \A a, b \in 1..Len(out[i].items) :
          out[i].items[a].key = out[i].items[b].key => a = b
    /\ \A i \in Groups : \A j \in Groups :
          i < j => \A a \in 1..Len(out[i].items) : \A b \in 1..Len(out[j].items) :
                      out[i].items[a].key = out[j].items[b].key
                          => out[i].items[a].ts < out[j].items[b].ts

C31_Witness ==
    \E i \in Groups : \E j \in Groups :
        /\ i < j
        /\ ItemKeys(out[i]) = KeyOrder /\ ItemKeys(out[j]) = KeyOrder
        /\ out[j].items[1].ts = out[i].items[1].ts + 1
        /\ out[j].items[2].ts > out[i].items[2].ts

\* poll has consumed at least one item of the input
ItemConsumed == input.pos > 1

\* poll has returned from the live phase: a group of branch 2 or 3, Pending,
\* the error of the input, or the end of the input
LiveReturn ==
    \/ pc = "group" /\ input_stream
    \/ pc = "pending"
    \/ pc = "err"
    \/ /\ pc = "end"
       /\ NumEnds(out) = 1
       /\ \A i \in 1..Len(out) : out[i].kind # "err"

\* poll has returned a group from the drain phase
DrainGroup == pc = "group" /\ ~input_stream

\* the watch holds the snapshot of the current state
WatchIsSnapshot ==
    /\ watch.commit_timestamp = commit_ts
    /\ \A k \in Keys :
          (\E i \in 1..Len(watch.accepted_keys) : watch.accepted_keys[i] = k)
              <=> Len(buffers[k]) < buf_size

\* C32: while the receiver is alive, at every return of poll from the live
\* phase after an item was consumed the watch holds the snapshot of the
\* state; the drain phase never writes the watch, which keeps the value the
\* live phase left.
C32_LiveReturnSnapshot ==
    /\ [](rx_alive /\ ItemConsumed /\ LiveReturn => WatchIsSnapshot)
    /\ [][~input_stream => watch' = watch]_vars

\* a group of the drain phase after which the watch still holds the commit
\* timestamp and the keys of the snapshot the live phase sent
C32_Witness ==
    /\ rx_alive /\ ItemConsumed /\ DrainGroup
    /\ IsSome(watch.commit_timestamp)
    /\ Unwrap(watch.commit_timestamp) < Unwrap(commit_ts)
    /\ Len(watch.accepted_keys) < Len(KeyOrder)
    /\ \A k \in Keys : Len(buffers[k]) < buf_size

\* C32 as stated: the watch holds the snapshot at the live returns and also
\* at the groups of the drain phase.
C32_AsClaimed ==
    rx_alive /\ ItemConsumed /\ (LiveReturn \/ DrainGroup) => WatchIsSnapshot

====
